---- MODULE Spec2Model ----
(***************************************************************************)
(* State-machine model of the object-oriented examples of the repository:  *)
(* checkoutService (payment gateway injection), BankAccount and            *)
(* PaymentProcessor (encapsulation), Order (payment method composition),   *)
(* MediaPlayer (polymorphism), OrderStatus and Status (enums), the media   *)
(* players of the interface segregation example, Author and Book           *)
(* (association) and OrderProcessor (coupling).  Each example is an        *)
(* independent object; each has a specification of its own over the shared *)
(* variables.                                                              *)
(*                                                                         *)
(* A TypeScript `number` that the code computes with is modelled as a      *)
(* record: an integer (every value used is far below 2^53, where double    *)
(* arithmetic on integers is exact) or NaN, with JavaScript's comparison   *)
(* and arithmetic rules for NaN.                                           *)
(***************************************************************************)
EXTENDS Integers, Sequences, FiniteSets

VARIABLES
    paymentGateway,     \* checkoutService.paymentGateway
    payments,           \* trace of the initiatePayment calls the gateways received
    latestGateway,      \* ghost: argument of the most recent constructor/setPaymentGateway
    checkouts,          \* ghost: trace of the checkout calls made
    gatewayObjects,     \* the gateway objects the composition code holds, by reference
    inFlight,           \* the checkout call that is dispatched and not yet completed
    checkoutThrown,     \* what the most recent checkout call threw (NoError: it returned)
    balance,            \* BankAccount.balance
    bankThrown,         \* what the most recent BankAccount call threw (NoError: it returned)
    bankCall,           \* ghost: the most recent BankAccount call and the balance before it
    ledger,             \* ghost: the totals of the deposits and of the withdrawals that returned
    processor,          \* the private fields of the PaymentProcessor object
    console,            \* what the most recent processPayment call printed
    processorThrown,    \* what the most recent processPayment call threw
    processorCall,      \* ghost: the constructor's arguments and the most recent call
    orderPaymentMethod, \* Order.paymentMethod
    orderResult,        \* how the most recent Order.checkout call ended
    orderCall,          \* ghost: the most recent Order call and the field before it
    currentMedia,       \* MediaPlayer.currentMedia
    mediaCalls,         \* trace of the play/pause/stop calls the media files received
    playerResult,       \* how the most recent MediaPlayer call ended
    playerCall,         \* ghost: the most recent MediaPlayer call, the field before it
                        \* and the argument of the most recent loadMedia call
    currentStatus,      \* const currentStatus: OrderStatus
    statusHeap,         \* the Status objects constructed, in order; a reference is an index
    statusStatics,      \* Status.Pending, Status.InProgress, Status.Completed: references
    currentStat,        \* const currentStat: a reference to a Status object
    enumResult,         \* the value the most recent Status expression returned, as printed
    enumConsole,        \* trace of the lines the enum examples printed
    ispCall,            \* the most recent call on a media player class of the ISP example
    ispResult,          \* how that call ended
    ispConsole,         \* trace of the lines the ISP example's players printed
    authorBooks,        \* Author.books of every author: an array of Book references
    bookAuthor,         \* Book.author of every book: an Author reference or undefined
    assocCalls,         \* ghost: the number of addBook and setAuthor calls made
    opLog,              \* trace of the calls the payment and notifier services received
    opOrders            \* ghost: trace of the orders passed to processOrder

checkoutVars == <<paymentGateway, payments, latestGateway, checkouts,
                  gatewayObjects, inFlight, checkoutThrown>>
bankVars == <<balance, bankThrown, bankCall, ledger>>
processorVars == <<processor, console, processorThrown, processorCall>>
orderVars == <<orderPaymentMethod, orderResult, orderCall>>
playerVars == <<currentMedia, mediaCalls, playerResult, playerCall>>
enumVars == <<currentStatus, statusHeap, statusStatics, currentStat, enumResult, enumConsole>>
ispVars == <<ispCall, ispResult, ispConsole>>
assocVars == <<authorBooks, bookAuthor, assocCalls>>
orderProcVars == <<opLog, opOrders>>
vars == <<checkoutVars, bankVars, processorVars, orderVars, playerVars, enumVars, ispVars,
          assocVars, orderProcVars>>

(***************************************************************************)
(* Bounds of the model.                                                    *)
(***************************************************************************)
MaxPayments == 3
MaxAmount == 3
MaxBalance == 8
MaxCardLen == 6
MaxMediaCalls == 3
MaxEnumLines == 3
MaxIspLines == 2
MaxAssocCalls == 3
MaxOrders == 3

(***************************************************************************)
(* JavaScript values.                                                      *)
(***************************************************************************)
Undefined == "undefined"
Null == "null"
NoCall == "none"
NoError == "none"

\* A number: an integer value, or NaN.
Num(n) == [nan |-> FALSE, val |-> n]
NaN == [nan |-> TRUE, val |-> 0]

\* a <= b, a > b, a + b, a - b on numbers (a comparison with NaN is false)
JsLeq(a, b) == ~a.nan /\ ~b.nan /\ a.val <= b.val
JsGt(a, b) == ~a.nan /\ ~b.nan /\ a.val > b.val
JsAdd(a, b) == IF a.nan \/ b.nan THEN NaN ELSE Num(a.val + b.val)
JsSub(a, b) == IF a.nan \/ b.nan THEN NaN ELSE Num(a.val - b.val)

\* The numbers a caller passes as an amount.
Amounts == {Num(n) : n \in -1 .. MaxAmount} \cup {NaN}

(***************************************************************************)
(* checkoutService: a PaymentGateway is injected by the constructor and    *)
(* replaced by setPaymentGateway; checkout delegates to it.                *)
(***************************************************************************)
\* The gateway objects the composition code constructs.
\* The PaymentGateway interface leaves the behaviour of an implementation
\* open; throwingGateway stands for one whose initiatePayment throws (the two
\* classes of the repository only print).
Gateways == {"stripeGateway", "razorPayGateway", "otherStripeGateway", "throwingGateway"}
GatewayError == "Payment failed"

\* the amounts passed to checkout: those of the usage code, and NaN
CheckoutAmounts == {Num(120), Num(180), NaN}

\* new StripePayment(), new RazorPayPayment(): an object without fields, of its class
GatewayClass(gateway) ==
    CASE gateway = "razorPayGateway" -> "RazorPayPayment"
      [] gateway = "throwingGateway" -> "ThrowingPayment"
      [] OTHER -> "StripePayment"

\* what gateway.initiatePayment(amount) throws
initiatePayment_thrown(gateway) ==
    IF GatewayClass(gateway) = "ThrowingPayment" THEN GatewayError ELSE NoError

\* StripePayment.initiatePayment / RazorPayPayment.initiatePayment: one
\* console line; the entry records the receiving object and the amount shown.
initiatePayment(gateway, amount) ==
    payments' = Append(payments, [gateway |-> gateway, amount |-> amount])

\* constructor(paymentGateway): this.paymentGateway = paymentGateway
checkoutService_new(gateway) == gateway

setPaymentGateway_ignored(gateway) ==
    /\ paymentGateway' = paymentGateway
    /\ UNCHANGED <<payments, gatewayObjects, checkoutThrown>>

setPaymentGateway_disposes_old(gateway) ==
    /\ paymentGateway' = gateway
    /\ gatewayObjects' = IF gateway = paymentGateway THEN gatewayObjects
                          ELSE [gatewayObjects EXCEPT ![paymentGateway] = Undefined]
    /\ UNCHANGED <<payments, checkoutThrown>>

\* setPaymentGateway(paymentGateway): this.paymentGateway = paymentGateway
setPaymentGateway(gateway) ==
    /\ paymentGateway' = gateway
    /\ UNCHANGED <<payments, gatewayObjects, checkoutThrown>>

\* checkout(amount) that pays through the bound gateway and through the
\* Stripe gateway as well
checkout_fans_out(amount) ==
    /\ payments' = Append(Append(payments, [gateway |-> paymentGateway, amount |-> amount]),
                          [gateway |-> "stripeGateway", amount |-> amount])
    /\ checkoutThrown' = initiatePayment_thrown(paymentGateway)
    /\ UNCHANGED <<paymentGateway, gatewayObjects>>

\* checkout(amount) that calls initiatePayment again when the call throws
checkout_retries(amount) ==
    /\ payments' =
           IF initiatePayment_thrown(paymentGateway) = NoError
           THEN Append(payments, [gateway |-> paymentGateway, amount |-> amount])
           ELSE Append(Append(payments, [gateway |-> paymentGateway, amount |-> amount]),
                       [gateway |-> paymentGateway, amount |-> amount])
    /\ checkoutThrown' = initiatePayment_thrown(paymentGateway)
    /\ UNCHANGED <<paymentGateway, gatewayObjects>>

\* checkout(amount): this.paymentGateway.initiatePayment(amount), with no
\* try/catch around the call: what the call throws, checkout throws
checkout(amount) ==
    /\ initiatePayment(paymentGateway, amount)
    /\ checkoutThrown' = initiatePayment_thrown(paymentGateway)
    /\ UNCHANGED <<paymentGateway, gatewayObjects>>

\* checkout(amount), first half: this.paymentGateway is read and the call is
\* dispatched to that object
checkout_dispatch(amount) ==
    /\ inFlight' = <<[gateway |-> paymentGateway, amount |-> amount]>>
    /\ UNCHANGED <<paymentGateway, payments, gatewayObjects, checkoutThrown>>

checkout_complete_rereads ==
    /\ initiatePayment(paymentGateway, inFlight[1].amount)
    /\ checkoutThrown' = initiatePayment_thrown(paymentGateway)
    /\ inFlight' = <<>>
    /\ UNCHANGED <<paymentGateway, gatewayObjects>>

\* checkout(amount), second half: the body of initiatePayment runs on the
\* object the call was dispatched to
checkout_complete ==
    /\ initiatePayment(inFlight[1].gateway, inFlight[1].amount)
    /\ checkoutThrown' = initiatePayment_thrown(inFlight[1].gateway)
    /\ inFlight' = <<>>
    /\ UNCHANGED <<paymentGateway, gatewayObjects>>

\* const service = new checkoutService(gateway)
InitCheckout ==
    \E gateway \in Gateways :
        /\ paymentGateway = checkoutService_new(gateway)
        /\ latestGateway = gateway
        /\ payments = <<>>
        /\ checkouts = <<>>
        /\ gatewayObjects = [g \in Gateways |-> GatewayClass(g)]
        /\ inFlight = <<>>
        /\ checkoutThrown = NoError

\* service.setPaymentGateway(gateway)
CallSetPaymentGateway ==
    \E gateway \in Gateways :
        /\ setPaymentGateway(gateway)
        /\ latestGateway' = gateway
        /\ UNCHANGED <<checkouts, inFlight, bankVars, processorVars, orderVars, playerVars, enumVars, ispVars, assocVars, orderProcVars>>

\* service.checkout(amount)
CallCheckout ==
    \E amount \in CheckoutAmounts :
        /\ Len(checkouts) < MaxPayments
        /\ inFlight = <<>>
        /\ checkout(amount)
        /\ checkouts' = Append(checkouts, [amount |-> amount, latest |-> latestGateway])
        /\ UNCHANGED <<latestGateway, inFlight, bankVars, processorVars, orderVars, playerVars, enumVars, ispVars, assocVars, orderProcVars>>

NextCheckout == CallSetPaymentGateway \/ CallCheckout

\* service.checkout(amount) is entered: the receiver of initiatePayment is fixed
DispatchCheckout ==
    \E amount \in CheckoutAmounts :
        /\ Len(checkouts) < MaxPayments
        /\ inFlight = <<>>
        /\ checkout_dispatch(amount)
        /\ checkouts' = Append(checkouts, [amount |-> amount, latest |-> latestGateway])
        /\ UNCHANGED <<latestGateway, bankVars, processorVars, orderVars, playerVars, enumVars, ispVars, assocVars, orderProcVars>>

\* the dispatched initiatePayment call runs and checkout returns
CompleteCheckout ==
    /\ inFlight # <<>>
    /\ checkout_complete
    /\ UNCHANGED <<latestGateway, checkouts, bankVars, processorVars, orderVars, playerVars, enumVars, ispVars, assocVars, orderProcVars>>

\* The calls of the service with a checkout in two steps.  JavaScript runs a
\* call to completion, so setPaymentGateway can run between the two steps only
\* when it is called from inside the gateway; the model allows it from anywhere.
NextDispatch == CallSetPaymentGateway \/ DispatchCheckout \/ CompleteCheckout

(***************************************************************************)
(* BankAccount: the balance changes only through deposit and withdrawal,   *)
(* which validate the amount first.                                        *)
(***************************************************************************)
DepositError == "Deposit amount must be positive"
WithdrawalError == "Withdrawal amount must be positive"
InsufficientFunds == "Insufficient funds"

deposit_unvalidated(amount) ==
    /\ bankThrown' = NoError
    /\ balance' = JsAdd(balance, amount)

\* deposit(amount) that credits the amount before it validates it
deposit_credits_first(amount) ==
    /\ bankThrown' = IF JsLeq(amount, Num(0)) THEN DepositError ELSE NoError
    /\ balance' = JsAdd(balance, amount)

\* deposit(amount)
deposit(amount) ==
    IF JsLeq(amount, Num(0))
    THEN /\ bankThrown' = DepositError
         /\ UNCHANGED balance
    ELSE /\ bankThrown' = NoError
         /\ balance' = JsAdd(balance, amount)

withdrawal_unchecked_funds(amount) ==
    IF JsLeq(amount, Num(0))
    THEN /\ bankThrown' = WithdrawalError
         /\ UNCHANGED balance
    ELSE /\ bankThrown' = NoError
         /\ balance' = JsSub(balance, amount)

withdrawal_debits_first(amount) ==
    IF JsLeq(amount, Num(0))
    THEN /\ bankThrown' = WithdrawalError
         /\ UNCHANGED balance
    ELSE /\ bankThrown' = IF JsGt(amount, balance) THEN InsufficientFunds ELSE NoError
         /\ balance' = JsSub(balance, amount)

\* withdrawal(amount)
withdrawal(amount) ==
    IF JsLeq(amount, Num(0))
    THEN /\ bankThrown' = WithdrawalError
         /\ UNCHANGED balance
    ELSE IF JsGt(amount, balance)
    THEN /\ bankThrown' = InsufficientFunds
         /\ UNCHANGED balance
    ELSE /\ bankThrown' = NoError
         /\ balance' = JsSub(balance, amount)

\* getBalance()
getBalance == balance

\* const account = new BankAccount()
InitBank ==
    /\ balance = Num(0)
    /\ bankThrown = NoError
    /\ bankCall = [op |-> NoCall, amount |-> Num(0), before |-> Num(0)]
    /\ ledger = [deposited |-> Num(0), withdrawn |-> Num(0)]

\* account.deposit(amount); the model stops depositing once MaxBalance has
\* been deposited in total
CallDeposit ==
    \E amount \in Amounts :
        /\ \/ JsLeq(JsAdd(ledger.deposited, amount), Num(MaxBalance))
           \/ amount.nan
           \/ ledger.deposited.nan
        /\ deposit(amount)
        /\ bankCall' = [op |-> "deposit", amount |-> amount, before |-> balance]
        /\ ledger' = IF bankThrown' = NoError
                     THEN [ledger EXCEPT !.deposited = JsAdd(@, amount)]
                     ELSE ledger
        /\ UNCHANGED <<checkoutVars, processorVars, orderVars, playerVars, enumVars, ispVars, assocVars, orderProcVars>>

\* account.withdrawal(amount); a NaN balance covers every withdrawal, and the
\* model stops withdrawing from one once MaxBalance has been withdrawn in total
CallWithdrawal ==
    \E amount \in Amounts :
        /\ \/ ~balance.nan
           \/ amount.nan
           \/ ledger.withdrawn.nan
           \/ JsLeq(JsAdd(ledger.withdrawn, amount), Num(MaxBalance))
        /\ withdrawal(amount)
        /\ bankCall' = [op |-> "withdrawal", amount |-> amount, before |-> balance]
        /\ ledger' = IF bankThrown' = NoError
                     THEN [ledger EXCEPT !.withdrawn = JsAdd(@, amount)]
                     ELSE ledger
        /\ UNCHANGED <<checkoutVars, processorVars, orderVars, playerVars, enumVars, ispVars, assocVars, orderProcVars>>

NextBank == CallDeposit \/ CallWithdrawal

(***************************************************************************)
(* Strings are sequences of characters; slice and padStart are those of    *)
(* String.prototype, as maskCardNumber calls them.                         *)
(***************************************************************************)
Max(a, b) == IF a >= b THEN a ELSE b
Min(a, b) == IF a <= b THEN a ELSE b

\* s.slice(start): a negative start counts from the end, clamped to the string
Slice(s, start) ==
    LET from == IF start < 0 THEN Max(Len(s) + start, 0) ELSE Min(start, Len(s))
    IN  SubSeq(s, from + 1, Len(s))

\* s.padStart(targetLength, padString): s itself when it is long enough
PadStart(s, targetLength, padString) ==
    IF targetLength <= Len(s) \/ padString = <<>>
    THEN s
    ELSE [i \in 1 .. (targetLength - Len(s)) |->
             padString[((i - 1) % Len(padString)) + 1]] \o s

(***************************************************************************)
(* PaymentProcessor: keeps the card number and the amount it was given and *)
(* prints the card number masked.                                          *)
(***************************************************************************)
PaymentError == "Payment amount must be positive"
CardChars == {"4", "7"}
CardNumbers == UNION {[1 .. n -> CardChars] : n \in 0 .. MaxCardLen}

\* constructor(cardNumber, amount)
PaymentProcessor_new(cardNumber, amount) ==
    [cardNumber |-> cardNumber, amount |-> amount]

maskCardNumber_unpadded(cardNumber) == Slice(cardNumber, -4)

\* maskCardNumber(), of this.cardNumber
maskCardNumber(cardNumber) ==
    PadStart(Slice(cardNumber, -4), Len(cardNumber), <<"*">>)

\* processPayment(): the line printed holds this.amount and the masked number
processPayment ==
    IF JsLeq(processor.amount, Num(0))
    THEN /\ processorThrown' = PaymentError
         /\ console' = <<>>
         /\ UNCHANGED processor
    ELSE /\ processorThrown' = NoError
         /\ console' = <<[amount |-> processor.amount,
                          card |-> maskCardNumber(processor.cardNumber)]>>
         /\ UNCHANGED processor

\* const payment = new PaymentProcessor(cardNumber, amount)
InitProcessor ==
    \E cardNumber \in CardNumbers, amount \in Amounts :
        /\ processor = PaymentProcessor_new(cardNumber, amount)
        /\ console = <<>>
        /\ processorThrown = NoError
        /\ processorCall = [cardNumber |-> cardNumber, amount |-> amount, op |-> NoCall]

\* payment.processPayment()
CallProcessPayment ==
    /\ processPayment
    /\ processorCall' = [processorCall EXCEPT !.op = "processPayment"]
    /\ UNCHANGED <<checkoutVars, bankVars, orderVars, playerVars, enumVars, ispVars, assocVars, orderProcVars>>

NextProcessor == CallProcessPayment

(***************************************************************************)
(* Order: holds a PaymentMethod that setPaymentMethod assigns; the         *)
(* constructor leaves the field unassigned.                                *)
(***************************************************************************)
TypeError == "TypeError"
PaymentMethods == {"creditCardPayment", "paypalPayment", "bitcoinPayment"}

\* constructor(orderId, items): paymentMethod is declared with ! and not assigned
Order_new == Undefined

\* setPaymentMethod(paymentMethod)
Order_setPaymentMethod(paymentMethod) ==
    /\ orderPaymentMethod' = paymentMethod
    /\ orderResult' = [thrown |-> NoError, returned |-> Undefined]

\* checkout(): prints the order line, then returns this.paymentMethod.processPayment();
\* every processPayment returns true; a call on undefined throws a TypeError
Order_checkout ==
    /\ orderResult' = IF orderPaymentMethod = Undefined
                         THEN [thrown |-> TypeError, returned |-> Undefined]
                         ELSE [thrown |-> NoError, returned |-> "true"]
    /\ UNCHANGED orderPaymentMethod

\* const order = new Order(orderId, items)
InitOrder ==
    /\ orderPaymentMethod = Order_new
    /\ orderResult = [thrown |-> NoError, returned |-> Undefined]
    /\ orderCall = [op |-> NoCall, before |-> Undefined]

\* order.setPaymentMethod(paymentMethod)
CallSetPaymentMethod ==
    \E paymentMethod \in PaymentMethods :
        /\ Order_setPaymentMethod(paymentMethod)
        /\ orderCall' = [op |-> "setPaymentMethod", before |-> orderPaymentMethod]
        /\ UNCHANGED <<checkoutVars, bankVars, processorVars, playerVars, enumVars, ispVars, assocVars, orderProcVars>>

\* order.checkout()
CallOrderCheckout ==
    /\ Order_checkout
    /\ orderCall' = [op |-> "checkout", before |-> orderPaymentMethod]
    /\ UNCHANGED <<checkoutVars, bankVars, processorVars, playerVars, enumVars, ispVars, assocVars, orderProcVars>>

(***************************************************************************)
(* MediaPlayer: plays, pauses and stops the media file loadMedia gave it.  *)
(***************************************************************************)
NoMediaLoaded == "No media loaded"
NoOutput == "none"
MediaFiles == {"song", "movie"}

\* AudioFile/VideoFile play(), pause(), stop(): one console line of the file
mediaOperation(media, operation) ==
    mediaCalls' = Append(mediaCalls, [media |-> media, op |-> operation])

\* loadMedia(media) that keeps the media file already loaded
loadMedia_keeps_first(media) ==
    /\ currentMedia' = IF currentMedia = Null THEN media ELSE currentMedia
    /\ playerResult' = [thrown |-> NoError, printed |-> "Loaded media"]
    /\ UNCHANGED mediaCalls

\* loadMedia(media)
loadMedia(media) ==
    /\ currentMedia' = media
    /\ playerResult' = [thrown |-> NoError, printed |-> "Loaded media"]
    /\ UNCHANGED mediaCalls

\* playMedia(): currentMedia.play() when a media file is loaded, else one console line
playMedia ==
    IF currentMedia # Null
    THEN /\ mediaOperation(currentMedia, "play")
         /\ playerResult' = [thrown |-> NoError, printed |-> NoOutput]
         /\ UNCHANGED currentMedia
    ELSE /\ playerResult' = [thrown |-> NoError, printed |-> NoMediaLoaded]
         /\ UNCHANGED <<currentMedia, mediaCalls>>

\* pauseMedia(): currentMedia.pause() when a media file is loaded, else one console line
pauseMedia ==
    IF currentMedia # Null
    THEN /\ mediaOperation(currentMedia, "pause")
         /\ playerResult' = [thrown |-> NoError, printed |-> NoOutput]
         /\ UNCHANGED currentMedia
    ELSE /\ playerResult' = [thrown |-> NoError, printed |-> NoMediaLoaded]
         /\ UNCHANGED <<currentMedia, mediaCalls>>

\* stopMedia(): currentMedia.stop() when a media file is loaded, else one console line
stopMedia ==
    IF currentMedia # Null
    THEN /\ mediaOperation(currentMedia, "stop")
         /\ playerResult' = [thrown |-> NoError, printed |-> NoOutput]
         /\ UNCHANGED currentMedia
    ELSE /\ playerResult' = [thrown |-> NoError, printed |-> NoMediaLoaded]
         /\ UNCHANGED <<currentMedia, mediaCalls>>

\* const player = new MediaPlayer()
InitPlayer ==
    /\ currentMedia = Null
    /\ mediaCalls = <<>>
    /\ playerResult = [thrown |-> NoError, printed |-> NoOutput]
    /\ playerCall = [op |-> NoCall, before |-> Null, loaded |-> Null]

\* player.loadMedia(media)
CallLoadMedia ==
    \E media \in MediaFiles :
        /\ loadMedia(media)
        /\ playerCall' = [op |-> "loadMedia", before |-> currentMedia, loaded |-> media]
        /\ UNCHANGED <<checkoutVars, bankVars, processorVars, orderVars, enumVars, ispVars, assocVars, orderProcVars>>

\* player.playMedia()
CallPlayMedia ==
    /\ Len(mediaCalls) < MaxMediaCalls
    /\ playMedia
    /\ playerCall' = [op |-> "playMedia", before |-> currentMedia,
                      loaded |-> playerCall.loaded]
    /\ UNCHANGED <<checkoutVars, bankVars, processorVars, orderVars, enumVars, ispVars, assocVars, orderProcVars>>

\* player.pauseMedia()
CallPauseMedia ==
    /\ Len(mediaCalls) < MaxMediaCalls
    /\ pauseMedia
    /\ playerCall' = [op |-> "pauseMedia", before |-> currentMedia,
                      loaded |-> playerCall.loaded]
    /\ UNCHANGED <<checkoutVars, bankVars, processorVars, orderVars, enumVars, ispVars, assocVars, orderProcVars>>

\* player.stopMedia()
CallStopMedia ==
    /\ Len(mediaCalls) < MaxMediaCalls
    /\ stopMedia
    /\ playerCall' = [op |-> "stopMedia", before |-> currentMedia,
                      loaded |-> playerCall.loaded]
    /\ UNCHANGED <<checkoutVars, bankVars, processorVars, orderVars, enumVars, ispVars, assocVars, orderProcVars>>

NextCapability ==
    \/ CallSetPaymentMethod
    \/ CallOrderCheckout
    \/ CallLoadMedia
    \/ CallPlayMedia
    \/ CallPauseMedia
    \/ CallStopMedia

(***************************************************************************)
(* Enums: the OrderStatus string enum, and the class-based Status enum      *)
(* whose variants are static instances made by a private constructor.  A    *)
(* Status reference is the position of the object in statusHeap, so two     *)
(* references are == exactly when they are the same object.                 *)
(***************************************************************************)
\* enum OrderStatus, with a member whose value differs in case
OrderStatus_lowercase_member ==
    [PLACED |-> "PLACED", PENDING |-> "PENDING", SHIPPED |-> "shipped",
     DELIVERED |-> "DELIVERED", CANCELLED |-> "CANCELLED"]

\* enum OrderStatus { PLACED = 'PLACED', ... }
OrderStatus ==
    [PLACED |-> "PLACED", PENDING |-> "PENDING", SHIPPED |-> "SHIPPED",
     DELIVERED |-> "DELIVERED", CANCELLED |-> "CANCELLED"]

\* the static declarations with the code of Pending pasted into InProgress
StatusDeclarations_pasted_code ==
    << [name |-> "Pending", code |-> "PENDING", label |-> "Waiting to start"],
       [name |-> "InProgress", code |-> "PENDING", label |-> "Work in progress"],
       [name |-> "Completed", code |-> "COMPLETED", label |-> "Task completed"] >>

\* static Pending = new Status(...); static InProgress = ...; static Completed = ...
\* in the order the class body evaluates them
StatusDeclarations ==
    << [name |-> "Pending", code |-> "PENDING", label |-> "Waiting to start"],
       [name |-> "InProgress", code |-> "IN_PROGRESS", label |-> "Work in progress"],
       [name |-> "Completed", code |-> "COMPLETED", label |-> "Task completed"] >>

StatusNames == {StatusDeclarations[i].name : i \in DOMAIN StatusDeclarations}

\* private constructor(public readonly code, public readonly label) {}: the
\* body is empty, every call returns a new object with the two fields
Status_new(code, label) ==
    [thrown |-> NoError, object |-> [code |-> code, label |-> label]]

\* isFinal() that compares with the first static of the class
isFinal_compares_pending(this) ==
    /\ enumResult' = IF this = statusStatics["Pending"] THEN "true" ELSE "false"
    /\ UNCHANGED <<statusHeap, statusStatics>>

\* isFinal() that builds the Completed variant again to compare with it
isFinal_constructs(this) ==
    /\ statusHeap' = Append(statusHeap, Status_new("COMPLETED", "Task completed").object)
    /\ enumResult' = IF this = Len(statusHeap') THEN "true" ELSE "false"
    /\ UNCHANGED statusStatics

\* isFinal() with the comparison negated
isFinal_negated(this) ==
    /\ enumResult' = IF this # statusStatics["Completed"] THEN "true" ELSE "false"
    /\ UNCHANGED <<statusHeap, statusStatics>>

\* isFinal() { return this == Status.Completed }
isFinal(this) ==
    /\ enumResult' = IF this = statusStatics["Completed"] THEN "true" ELSE "false"
    /\ UNCHANGED <<statusHeap, statusStatics>>

\* The class definition has run its three static initialisers;
\* const currentStatus = OrderStatus.SHIPPED; const currentStat = Status.InProgress
InitEnum ==
    /\ currentStatus = OrderStatus.SHIPPED
    /\ statusHeap = [i \in DOMAIN StatusDeclarations |->
                        Status_new(StatusDeclarations[i].code,
                                   StatusDeclarations[i].label).object]
    /\ statusStatics = [n \in StatusNames |->
                           CHOOSE i \in DOMAIN StatusDeclarations :
                               StatusDeclarations[i].name = n]
    /\ currentStat = statusStatics["InProgress"]
    /\ enumResult = Undefined
    /\ enumConsole = <<>>

\* if (currentStatus === OrderStatus.SHIPPED) { console.log('Your package is on the way!') }
CheckShipped ==
    /\ Len(enumConsole) < MaxEnumLines
    /\ enumConsole' =
           IF currentStatus = OrderStatus.SHIPPED
           THEN Append(enumConsole, [op |-> "shipped", value |-> "Your package is on the way!"])
           ELSE Append(enumConsole, [op |-> "shipped", value |-> NoOutput])
    /\ UNCHANGED <<currentStatus, statusHeap, statusStatics, currentStat, enumResult>>
    /\ UNCHANGED <<checkoutVars, bankVars, processorVars, orderVars, playerVars, ispVars, assocVars, orderProcVars>>

\* console.log(Status.X.code)
LogCode ==
    \E n \in StatusNames :
        /\ Len(enumConsole) < MaxEnumLines
        /\ enumResult' = statusHeap[statusStatics[n]].code
        /\ enumConsole' = Append(enumConsole, [op |-> "code", this |-> statusStatics[n],
                                               value |-> enumResult'])
        /\ UNCHANGED <<currentStatus, statusHeap, statusStatics, currentStat>>
        /\ UNCHANGED <<checkoutVars, bankVars, processorVars, orderVars, playerVars, ispVars, assocVars, orderProcVars>>

\* console.log(Status.X.label)
LogLabel ==
    \E n \in StatusNames :
        /\ Len(enumConsole) < MaxEnumLines
        /\ enumResult' = statusHeap[statusStatics[n]].label
        /\ enumConsole' = Append(enumConsole, [op |-> "label", this |-> statusStatics[n],
                                               value |-> enumResult'])
        /\ UNCHANGED <<currentStatus, statusHeap, statusStatics, currentStat>>
        /\ UNCHANGED <<checkoutVars, bankVars, processorVars, orderVars, playerVars, ispVars, assocVars, orderProcVars>>

\* console.log(Status.X.isFinal())
LogIsFinal ==
    \E n \in StatusNames :
        /\ Len(enumConsole) < MaxEnumLines
        /\ isFinal(statusStatics[n])
        /\ enumConsole' = Append(enumConsole, [op |-> "isFinal", this |-> statusStatics[n],
                                               value |-> enumResult'])
        /\ UNCHANGED <<currentStatus, currentStat>>
        /\ UNCHANGED <<checkoutVars, bankVars, processorVars, orderVars, playerVars, ispVars, assocVars, orderProcVars>>

NextEnum == CheckShipped \/ LogCode \/ LogLabel \/ LogIsFinal

(***************************************************************************)
(* Interface segregation example: AudioOnlyPlayer implements the one large  *)
(* MediaPlayer interface; ModernAudioPlayer, SilentVideoPlayer and          *)
(* ComprehensiveMediaPlayer implement AudioPlayerControls and/or            *)
(* VideoPlayerControls.  The players keep no fields: a call ends by         *)
(* throwing or returning, and prints at most one line.  A printed line is   *)
(* the text of the template followed by the argument it interpolates.       *)
(***************************************************************************)
IspPrints(line) == [thrown |-> NoError, printed |-> line]
IspThrows(message) == [thrown |-> message, printed |-> <<>>]
IspReturns == [thrown |-> NoError, printed |-> <<>>]

\* interface AudioPlayerControls and the first three methods of MediaPlayer
AudioPlayerControls == {"playAudio", "stopAudio", "adjustAudioVolume"}
\* interface VideoPlayerControls and the last four methods of MediaPlayer
VideoPlayerControls ==
    {"playVideo", "stopVideo", "adjustVideoBrightness", "displaySubtitles"}

\* class AudioOnlyPlayer implements MediaPlayer
AudioOnlyPlayer(op, arg) ==
    CASE op = "playAudio" -> IspPrints(<<"Playing audio file: ", arg>>)
      [] op = "stopAudio" -> IspPrints(<<"Audio stopped.">>)
      [] op = "adjustAudioVolume" -> IspPrints(<<"Audio volume set to: ", arg>>)
      [] op = "playVideo" -> IspThrows("Not supported.")
      [] op = "stopVideo" -> IspReturns
      [] op = "adjustVideoBrightness" -> IspThrows("Not supported.")
      [] op = "displaySubtitles" -> IspThrows("Not supported.")

\* class ModernAudioPlayer implements AudioPlayerControls
ModernAudioPlayer(op, arg) ==
    CASE op = "playAudio" -> IspPrints(<<"ModernAudioPlayer: Playing audio - ", arg>>)
      [] op = "stopAudio" -> IspPrints(<<"ModernAudioPlayer: Audio stopped.">>)
      [] op = "adjustAudioVolume" -> IspPrints(<<"ModernAudioPlayer: Volume set to ", arg>>)

\* SilentVideoPlayer whose stopVideo is the empty one of AudioOnlyPlayer
SilentVideoPlayer_empty_stop(op, arg) ==
    CASE op = "playVideo" -> IspPrints(<<"SilentVideoPlayer: Playing video - ", arg>>)
      [] op = "stopVideo" -> IspReturns
      [] op = "adjustVideoBrightness" ->
             IspPrints(<<"SilentVideoPlayer: Brightness set to ", arg>>)
      [] op = "displaySubtitles" -> IspPrints(<<"SilentVideoPlayer: Subtitles from ", arg>>)

\* class SilentVideoPlayer implements VideoPlayerControls
SilentVideoPlayer(op, arg) ==
    CASE op = "playVideo" -> IspPrints(<<"SilentVideoPlayer: Playing video - ", arg>>)
      [] op = "stopVideo" -> IspPrints(<<"SilentVideoPlayer: Video stopped.">>)
      [] op = "adjustVideoBrightness" ->
             IspPrints(<<"SilentVideoPlayer: Brightness set to ", arg>>)
      [] op = "displaySubtitles" -> IspPrints(<<"SilentVideoPlayer: Subtitles from ", arg>>)

\* class ComprehensiveMediaPlayer implements AudioPlayerControls, VideoPlayerControls
ComprehensiveMediaPlayer(op, arg) ==
    CASE op = "playAudio" ->
             IspPrints(<<"ComprehensiveMediaPlayer: Playing audio - ", arg>>)
      [] op = "stopAudio" -> IspPrints(<<"ComprehensiveMediaPlayer: Audio stopped.">>)
      [] op = "adjustAudioVolume" ->
             IspPrints(<<"ComprehensiveMediaPlayer: Audio volume set to ", arg>>)
      [] op = "playVideo" ->
             IspPrints(<<"ComprehensiveMediaPlayer: Playing video - ", arg>>)
      [] op = "stopVideo" -> IspPrints(<<"ComprehensiveMediaPlayer: Video stopped.">>)
      [] op = "adjustVideoBrightness" ->
             IspPrints(<<"ComprehensiveMediaPlayer: Brightness set to ", arg>>)
      [] op = "displaySubtitles" ->
             IspPrints(<<"ComprehensiveMediaPlayer: Subtitles from ", arg>>)

IspClasses ==
    {"AudioOnlyPlayer", "ModernAudioPlayer", "SilentVideoPlayer",
     "ComprehensiveMediaPlayer"}

\* the methods each class declares: those of the interfaces it implements
IspOperations(class) ==
    CASE class = "AudioOnlyPlayer" -> AudioPlayerControls \cup VideoPlayerControls
      [] class = "ModernAudioPlayer" -> AudioPlayerControls
      [] class = "SilentVideoPlayer" -> VideoPlayerControls
      [] class = "ComprehensiveMediaPlayer" -> AudioPlayerControls \cup VideoPlayerControls

\* the argument of a call, as the text a template renders it to; stopAudio
\* and stopVideo take none
IspArguments(op) ==
    IF op \in {"stopAudio", "stopVideo"} THEN {Undefined} ELSE {"intro", "7"}

\* method dispatch on the class of the receiver
IspInvoke(class, op, arg) ==
    CASE class = "AudioOnlyPlayer" -> AudioOnlyPlayer(op, arg)
      [] class = "ModernAudioPlayer" -> ModernAudioPlayer(op, arg)
      [] class = "SilentVideoPlayer" -> SilentVideoPlayer(op, arg)
      [] class = "ComprehensiveMediaPlayer" -> ComprehensiveMediaPlayer(op, arg)

\* no player has been called yet
InitIsp ==
    /\ ispCall = [class |-> NoCall, op |-> NoCall, arg |-> Undefined]
    /\ ispResult = IspReturns
    /\ ispConsole = <<>>

\* new Class().op(arg)
CallPlayer ==
    \E class \in IspClasses :
        \E op \in IspOperations(class) :
            \E arg \in IspArguments(op) :
                /\ Len(ispConsole) < MaxIspLines
                /\ ispCall' = [class |-> class, op |-> op, arg |-> arg]
                /\ ispResult' = IspInvoke(class, op, arg)
                /\ ispConsole' = IF ispResult'.printed = <<>>
                                 THEN ispConsole
                                 ELSE Append(ispConsole, ispResult'.printed)
                /\ UNCHANGED <<checkoutVars, bankVars, processorVars, orderVars,
                               playerVars, enumVars, assocVars, orderProcVars>>

NextPlayers == CallPlayer

(***************************************************************************)
(* Bidirectional association: an Author keeps a list of Books and each     *)
(* Book a reference to its Author.                                         *)
(***************************************************************************)
Authors == {"author", "otherAuthor"}
Books == {"book1", "book2"}

\* Author.getName(): the name given to the constructor
getName(author) ==
    IF author = "author" THEN "J.K. Rowling" ELSE "George Orwell"

\* Book.getAuthor()
getAuthor(book) ==
    IF bookAuthor[book] # Undefined THEN getName(bookAuthor[book]) ELSE "Unknown Author"

\* Author.getBooks()
getBooks(author) == authorBooks[author]

\* Book.setAuthor(author): this.author = author
setAuthor(book, author) ==
    bookAuthor' = [bookAuthor EXCEPT ![book] = author]

\* Author.addBook(book): this.books.push(book); book.setAuthor(this)
addBook(author, book) ==
    /\ authorBooks' = [authorBooks EXCEPT ![author] = Append(@, book)]
    /\ setAuthor(book, author)

\* new Author(name), new Book(title): no books listed, no author set
InitAssociation ==
    /\ authorBooks = [a \in Authors |-> <<>>]
    /\ bookAuthor = [b \in Books |-> Undefined]
    /\ assocCalls = 0

\* author.addBook(book)
CallAddBook ==
    \E author \in Authors, book \in Books :
        /\ assocCalls < MaxAssocCalls
        /\ addBook(author, book)
        /\ assocCalls' = assocCalls + 1
        /\ UNCHANGED <<checkoutVars, bankVars, processorVars, orderVars, playerVars,
                       enumVars, ispVars, orderProcVars>>

\* book.setAuthor(author)
CallSetAuthor ==
    \E author \in Authors, book \in Books :
        /\ assocCalls < MaxAssocCalls
        /\ setAuthor(book, author)
        /\ assocCalls' = assocCalls + 1
        /\ UNCHANGED authorBooks
        /\ UNCHANGED <<checkoutVars, bankVars, processorVars, orderVars, playerVars,
                       enumVars, ispVars, orderProcVars>>

NextAssociation == CallAddBook \/ CallSetAuthor

(***************************************************************************)
(* OrderProcessor: processOrder pays through the injected PaymentProcessor *)
(* and then notifies through the injected Notifier.                        *)
(***************************************************************************)
\* the orders passed to processOrder: { amount, customerEmail }
Orders ==
    [amount : {Num(250), Num(0), NaN},
     customerEmail : {"john@example.com", "jane@example.com"}]

\* OnlinePayment.makePayment(amount): one console line
makePayment(amount) == [service |-> "payment", amount |-> amount]

\* EmailNotifier.sendNotification(email, message): one console line
sendNotification(email, message) ==
    [service |-> "notifier", email |-> email, message |-> message]

\* processOrder(order) that notifies before it pays
processOrder_notifies_first(order) ==
    opLog' = opLog \o <<sendNotification(order.customerEmail, "Order Confirmed"),
                        makePayment(order.amount)>>

\* processOrder(order): this.payment.makePayment(order.amount);
\* this.notifier.sendNotification(order.customerEmail, "Order Confirmed")
processOrder(order) ==
    opLog' = opLog \o <<makePayment(order.amount),
                        sendNotification(order.customerEmail, "Order Confirmed")>>

\* new OrderProcessor(paymentService, emailService)
InitOrderProcessor ==
    /\ opLog = <<>>
    /\ opOrders = <<>>

\* orderProcessor.processOrder(order)
CallProcessOrder ==
    \E order \in Orders :
        /\ Len(opOrders) < MaxOrders
        /\ processOrder(order)
        /\ opOrders' = Append(opOrders, order)
        /\ UNCHANGED <<checkoutVars, bankVars, processorVars, orderVars, playerVars,
                       enumVars, ispVars, assocVars>>

NextOrderProcessor == CallProcessOrder

(***************************************************************************)
(* Specifications: every object starts freshly constructed.  Each          *)
(* specification runs the calls of one example; the other objects stay as  *)
(* the usage code of their example constructs them.                        *)
(***************************************************************************)
\* new checkoutService(stripeGateway)
UsageCheckout == InitCheckout /\ latestGateway = "stripeGateway"
\* new PaymentProcessor(cardNumber, amount), with a positive amount
UsageProcessor ==
    InitProcessor /\ processorCall.cardNumber = <<>> /\ processorCall.amount = Num(1)

StartCheckout == InitCheckout /\ InitBank /\ UsageProcessor /\ InitOrder /\ InitPlayer /\ InitEnum /\ InitIsp
    /\ InitAssociation /\ InitOrderProcessor
StartBank == UsageCheckout /\ InitBank /\ UsageProcessor /\ InitOrder /\ InitPlayer /\ InitEnum /\ InitIsp
    /\ InitAssociation /\ InitOrderProcessor
StartProcessor == UsageCheckout /\ InitBank /\ InitProcessor /\ InitOrder /\ InitPlayer /\ InitEnum /\ InitIsp
    /\ InitAssociation /\ InitOrderProcessor
StartCapability == UsageCheckout /\ InitBank /\ UsageProcessor /\ InitOrder /\ InitPlayer /\ InitEnum /\ InitIsp
    /\ InitAssociation /\ InitOrderProcessor

SpecCheckout == StartCheckout /\ [][NextCheckout]_vars
SpecDispatch == StartCheckout /\ [][NextDispatch]_vars
SpecBank == StartBank /\ [][NextBank]_vars
SpecProcessor == StartProcessor /\ [][NextProcessor]_vars
StartEnum ==
    UsageCheckout /\ InitBank /\ UsageProcessor /\ InitOrder /\ InitPlayer /\ InitEnum /\ InitIsp
    /\ InitAssociation /\ InitOrderProcessor
StartPlayers ==
    UsageCheckout /\ InitBank /\ UsageProcessor /\ InitOrder /\ InitPlayer /\ InitEnum /\ InitIsp
    /\ InitAssociation /\ InitOrderProcessor
StartAssociation ==
    UsageCheckout /\ InitBank /\ UsageProcessor /\ InitOrder /\ InitPlayer /\ InitEnum /\ InitIsp
    /\ InitAssociation /\ InitOrderProcessor
StartOrderProcessor ==
    UsageCheckout /\ InitBank /\ UsageProcessor /\ InitOrder /\ InitPlayer /\ InitEnum /\ InitIsp
    /\ InitAssociation /\ InitOrderProcessor
SpecCapability == StartCapability /\ [][NextCapability]_vars
SpecEnum == StartEnum /\ [][NextEnum]_vars
SpecPlayers == StartPlayers /\ [][NextPlayers]_vars
SpecAssociation == StartAssociation /\ [][NextAssociation]_vars
SpecOrderProcessor == StartOrderProcessor /\ [][NextOrderProcessor]_vars

(***************************************************************************)
(* Properties of checkoutService.                                          *)
(***************************************************************************)
\* C1: every checkout(amount) makes one initiatePayment(amount) call, on the
\* gateway passed to the most recent constructor or setPaymentGateway call.
C1_CheckoutUsesLatestGateway ==
    /\ Len(payments) = Len(checkouts)
    /\ \A i \in 1 .. Len(checkouts) :
           /\ payments[i].gateway = checkouts[i].latest
           /\ payments[i].amount = checkouts[i].amount

\* A checkout served by the constructor's gateway, then one served by another
\* gateway after setPaymentGateway.
C1_RebindBetweenCheckouts ==
    /\ Len(payments) >= 2
    /\ payments[1].gateway # payments[2].gateway
    /\ payments[2].gateway = latestGateway

\* C11: setPaymentGateway changes only the service's paymentGateway field: in
\* a step that is not a checkout, every gateway object (the one bound before
\* included) keeps its class and so its initiatePayment, and no gateway
\* receives a call.
C11_RebindLeavesGatewaysAlone ==
    [][checkouts' = checkouts =>
          /\ gatewayObjects' = gatewayObjects
          /\ payments' = payments
          /\ \A g \in Gateways : gatewayObjects'[g] = GatewayClass(g)]_vars

\* The gateway that served a checkout has been replaced by another one and is
\* still the object it was.
C11_ServedGatewayReplaced ==
    /\ Len(payments) >= 1
    /\ payments[1].gateway # paymentGateway
    /\ gatewayObjects[payments[1].gateway] = GatewayClass(payments[1].gateway)

\* C12: each checkout call is served by exactly one gateway, the one bound
\* when the call was dispatched: a call in flight during setPaymentGateway
\* completes on the old gateway, a call entered after it on the new one.
C12_ServedByGatewayAtDispatch ==
    /\ Len(payments) + Len(inFlight) = Len(checkouts)
    /\ Len(inFlight) <= 1
    /\ \A i \in 1 .. Len(payments) :
           /\ payments[i].gateway = checkouts[i].latest
           /\ payments[i].amount = checkouts[i].amount
    /\ \A i \in 1 .. Len(inFlight) :
           inFlight[i].gateway = checkouts[Len(checkouts)].latest

\* After an earlier call completed, a call is in flight on the gateway it was
\* dispatched to while the service is already bound to another gateway.
C12_InFlightOnOldGatewayAfterRebind ==
    /\ Len(payments) >= 1
    /\ Len(inFlight) = 1
    /\ inFlight[1].gateway # paymentGateway

\* C15: the service has one active gateway at a time: its paymentGateway
\* field always holds one gateway object; a checkout makes one
\* initiatePayment call, on that gateway and on no other; setPaymentGateway
\* makes the gateway it is given the active one in place of the previous one
\* and calls no gateway.
C15_OneActiveGateway ==
    [][/\ paymentGateway' \in Gateways
       /\ checkouts' # checkouts =>
              /\ payments' = Append(payments, payments'[Len(payments')])
              /\ payments'[Len(payments')].gateway = paymentGateway
              /\ paymentGateway' = paymentGateway
       /\ checkouts' = checkouts =>
              /\ payments' = payments
              /\ paymentGateway' = latestGateway']_vars

\* Three checkouts, each served by a single gateway, and the three gateways
\* differ: each was the active one in its turn.
C15_ThreeGatewaysInTurn ==
    /\ Len(payments) = 3
    /\ Len(checkouts) = 3
    /\ Cardinality({payments[i].gateway : i \in 1 .. 3}) = 3

\* C21: a checkout call makes exactly one initiatePayment call, with the
\* amount it was given, on the bound gateway, whether or not that call
\* throws; when the call throws, checkout throws the same error to its
\* caller, and when it returns, checkout returns.
C21_OneCallFailureReported ==
    [][checkouts' # checkouts =>
          /\ payments' = Append(payments, [gateway |-> paymentGateway,
                                           amount |-> checkouts'[Len(checkouts')].amount])
          /\ IF GatewayClass(paymentGateway) = "ThrowingPayment"
             THEN checkoutThrown' = GatewayError
             ELSE checkoutThrown' = NoError]_vars

\* A checkout on the throwing gateway has thrown, after a single call.
C21_FailedCheckoutCalledOnce ==
    /\ Len(checkouts) = 1
    /\ Len(payments) = 1
    /\ payments[1].gateway = "throwingGateway"
    /\ checkoutThrown = GatewayError

(***************************************************************************)
(* Properties of Order and MediaPlayer.                                    *)
(***************************************************************************)
\* C2: a use of a capability that was never bound (Order.checkout before any
\* setPaymentMethod; playMedia, pauseMedia or stopMedia before any loadMedia)
\* ends with an error thrown to the caller, never with a normal return.
C2_UnboundUseFailsLoudly ==
    /\ (orderCall.op = "checkout" /\ orderCall.before = Undefined)
           => orderResult.thrown # NoError
    /\ (playerCall.op \in {"playMedia", "pauseMedia", "stopMedia"}
           /\ playerCall.before = Null)
           => playerResult.thrown # NoError

\* C24: once a media file has been loaded, every playMedia, pauseMedia and
\* stopMedia call makes exactly one call, play, pause or stop respectively,
\* on the media file passed to the most recent loadMedia call, and no call
\* on any other media file.
C24_OperatesOnLatestLoaded ==
    [][/\ mediaCalls' # mediaCalls =>
              /\ playerCall.loaded # Null
              /\ playerCall'.op \in {"playMedia", "pauseMedia", "stopMedia"}
              /\ mediaCalls' =
                     Append(mediaCalls,
                            [media |-> playerCall.loaded,
                             op |-> CASE playerCall'.op = "playMedia" -> "play"
                                      [] playerCall'.op = "pauseMedia" -> "pause"
                                      [] playerCall'.op = "stopMedia" -> "stop"])
       /\ (/\ mediaCalls' = mediaCalls
           /\ playerVars' # playerVars
           /\ playerCall.loaded # Null) => playerCall'.op = "loadMedia"]_vars

\* Two media files were loaded in turn and each received the call made while
\* it was the loaded one.
C24_SecondMediaOperated ==
    /\ Len(mediaCalls) >= 2
    /\ mediaCalls[1].media # mediaCalls[2].media
    /\ mediaCalls[2].media = playerCall.loaded
    /\ mediaCalls[2].op = "stop"

(***************************************************************************)
(* Properties of BankAccount.                                              *)
(***************************************************************************)
\* C6: after any sequence of deposit and withdrawal calls, returning or
\* throwing, getBalance() is never negative.
C6_BalanceNeverNegative == ~(~getBalance.nan /\ getBalance.val < 0)

\* A withdrawal of the whole balance returned and left the balance at 0.
C6_WholeBalanceWithdrawn ==
    /\ bankCall.op = "withdrawal"
    /\ bankThrown = NoError
    /\ JsGt(bankCall.before, Num(0))
    /\ getBalance = Num(0)

\* C7: deposit(amount) with amount <= 0 throws 'Deposit amount must be
\* positive' and leaves the balance unchanged; with amount > 0 it returns and
\* the balance is the balance before plus amount.
C7_DepositValidates ==
    bankCall.op = "deposit" =>
        /\ JsLeq(bankCall.amount, Num(0)) =>
               (bankThrown = DepositError /\ balance = bankCall.before)
        /\ JsGt(bankCall.amount, Num(0)) =>
               (bankThrown = NoError /\ balance = JsAdd(bankCall.before, bankCall.amount))

\* A deposit of a non-positive amount was rejected on an account holding money.
C7_RejectedDepositOnFundedAccount ==
    /\ bankCall.op = "deposit"
    /\ JsLeq(bankCall.amount, Num(0))
    /\ JsGt(bankCall.before, Num(0))
    /\ bankThrown = DepositError

\* C8: withdrawal(amount) with amount <= 0 throws 'Withdrawal amount must be
\* positive', and with amount greater than the balance throws 'Insufficient
\* funds'; in both cases the balance is unchanged.
C8_WithdrawalRejects ==
    bankCall.op = "withdrawal" =>
        /\ JsLeq(bankCall.amount, Num(0)) =>
               (bankThrown = WithdrawalError /\ balance = bankCall.before)
        /\ JsGt(bankCall.amount, bankCall.before) =>
               (bankThrown = InsufficientFunds /\ balance = bankCall.before)

\* A withdrawal of more than a positive balance was rejected.
C8_OverdraftRejected ==
    /\ bankCall.op = "withdrawal"
    /\ JsGt(bankCall.before, Num(0))
    /\ JsGt(bankCall.amount, bankCall.before)
    /\ bankThrown = InsufficientFunds

\* C26: after any sequence of deposit and withdrawal calls, getBalance() is
\* the total of the amounts of the deposits that returned minus the total of
\* the amounts of the withdrawals that returned; a call that threw adds to
\* neither total.  (The totals are JavaScript sums: NaN once a NaN amount
\* was accepted, and the balance is then NaN as well.)
C26_BalanceIsDepositsMinusWithdrawals ==
    getBalance = JsSub(ledger.deposited, ledger.withdrawn)

\* Deposits and withdrawals have returned, a withdrawal has just thrown, and
\* money is left.
C26_LedgerAfterRejectedWithdrawal ==
    /\ JsGt(ledger.deposited, Num(1))
    /\ JsGt(ledger.withdrawn, Num(0))
    /\ bankCall.op = "withdrawal"
    /\ bankThrown = InsufficientFunds
    /\ JsGt(getBalance, Num(0))

\* C27: withdrawal(amount) returns exactly when 0 < amount <= balance, and
\* the balance is then the balance before minus amount (0 when the whole
\* balance is withdrawn); with amount <= 0 on an empty account it throws
\* 'Withdrawal amount must be positive'.
C27_WithdrawalSucceedsExactlyWhenCovered ==
    bankCall.op = "withdrawal" =>
        /\ (bankThrown = NoError) <=>
               (JsGt(bankCall.amount, Num(0)) /\ JsLeq(bankCall.amount, bankCall.before))
        /\ bankThrown = NoError => balance = JsSub(bankCall.before, bankCall.amount)
        /\ (bankThrown = NoError /\ bankCall.amount = bankCall.before) => balance = Num(0)
        /\ (JsLeq(bankCall.amount, Num(0)) /\ bankCall.before = Num(0)) =>
               bankThrown = WithdrawalError

(***************************************************************************)
(* Properties of PaymentProcessor.                                         *)
(***************************************************************************)
\* C9: the PaymentProcessor object never holds the card number it was given
\* unmasked, and processPayment never prints it unmasked (of a card number
\* that has characters to mask or to hold).
C9_RawCardNeverStoredOrPrinted ==
    processorCall.cardNumber # <<>> =>
    /\ processor.cardNumber # processorCall.cardNumber
    /\ \A i \in 1 .. Len(console) : console[i].card # processorCall.cardNumber

\* C10: the card number processPayment prints has the length of the card
\* number given; its last four characters are those of the card number and
\* every character before them is '*'.
C10_PrintedCardIsMasked ==
    \A i \in 1 .. Len(console) :
        LET given == processorCall.cardNumber
            shown == console[i].card
        IN  /\ Len(shown) = Len(given)
            /\ \A k \in 1 .. Len(given) :
                   shown[k] = IF k > Len(given) - 4 THEN given[k] ELSE "*"

\* processPayment printed a card number of more than four characters.
C10_LongCardPrinted ==
    /\ processorCall.op = "processPayment"
    /\ Len(console) = 1
    /\ Len(processorCall.cardNumber) > 4

C18_VariantsImmutable ==
    [][statusHeap' = statusHeap /\ statusStatics' = statusStatics]_vars

\* A code was read and isFinal() was called, and the three variants are
\* the objects the static initialisers made.
C18_VariantsUsed ==
    /\ \E i, j \in DOMAIN enumConsole :
           enumConsole[i].op = "isFinal" /\ enumConsole[j].op = "code"
    /\ Len(statusHeap) = Len(StatusDeclarations)
    /\ \A i \in DOMAIN StatusDeclarations :
           /\ statusStatics[StatusDeclarations[i].name] = i
           /\ statusHeap[i].code = StatusDeclarations[i].code
           /\ statusHeap[i].label = StatusDeclarations[i].label

\* C25: every isFinal() call on Status.Completed returned true and every
\* isFinal() call on Status.Pending or Status.InProgress returned false.
C25_IsFinalOnlyForCompleted ==
    \A i \in DOMAIN enumConsole :
        enumConsole[i].op = "isFinal" =>
            /\ enumConsole[i].this = statusStatics["Completed"] =>
                   enumConsole[i].value = "true"
            /\ enumConsole[i].this \in {statusStatics["Pending"], statusStatics["InProgress"]} =>
                   enumConsole[i].value = "false"

\* isFinal() was called on each of the three variants.
C25_IsFinalCalledOnEveryVariant ==
    \A n \in {"Pending", "InProgress", "Completed"} :
        \E i \in DOMAIN enumConsole :
            /\ enumConsole[i].op = "isFinal"
            /\ enumConsole[i].this = statusStatics[n]

(***************************************************************************)
(* Properties of the media players of the interface segregation example.   *)
(***************************************************************************)
\* C20 as stated: no call of a method that AudioOnlyPlayer,
\* ModernAudioPlayer, SilentVideoPlayer or ComprehensiveMediaPlayer
\* declares throws or returns without having done anything.
C20_EveryOperationSupported ==
    ispCall.op # NoCall =>
        /\ ispResult.thrown = NoError
        /\ ispResult.printed # <<>>

\* C20, amended: no call of a method that ModernAudioPlayer,
\* SilentVideoPlayer or ComprehensiveMediaPlayer declares throws or returns
\* without having done anything.
C20_SegregatedPlayersSupportAll ==
    ispCall.class \in {"ModernAudioPlayer", "SilentVideoPlayer", "ComprehensiveMediaPlayer"} =>
        /\ ispResult.thrown = NoError
        /\ ispResult.printed # <<>>
        /\ ispConsole # <<>>
        /\ ispConsole[Len(ispConsole)] = ispResult.printed

\* SilentVideoPlayer.stopVideo() was called and printed its line.
C20_SilentVideoPlayerStopped ==
    /\ ispCall.class = "SilentVideoPlayer"
    /\ ispCall.op = "stopVideo"
    /\ ispResult.printed = <<"SilentVideoPlayer: Video stopped.">>

(***************************************************************************)
(* Properties of the Author/Book association.                              *)
(***************************************************************************)
\* C22: after any sequence of addBook and setAuthor calls, every book in an
\* author's getBooks() list references that author, and its getAuthor()
\* returns that author's name.
C22_ListedBooksReferenceAuthor ==
    \A author \in Authors :
        \A i \in DOMAIN getBooks(author) :
            /\ bookAuthor[getBooks(author)[i]] = author
            /\ getAuthor(getBooks(author)[i]) = getName(author)

\* C28: after any sequence of addBook and setAuthor calls, the getBooks()
\* list of the author a book references contains the book exactly once.
C28_ReferencedAuthorListsBookOnce ==
    \A book \in Books :
        bookAuthor[book] # Undefined =>
            Cardinality({i \in DOMAIN getBooks(bookAuthor[book]) :
                            getBooks(bookAuthor[book])[i] = book}) = 1

(***************************************************************************)
(* Properties of OrderProcessor.                                           *)
(***************************************************************************)
\* C23: every processOrder(order) call makes exactly two service calls, in
\* this order: makePayment(order.amount) on the payment service, then
\* sendNotification(order.customerEmail, 'Order Confirmed') on the notifier.
C23_PaymentBeforeNotification ==
    /\ Len(opLog) = 2 * Len(opOrders)
    /\ \A k \in DOMAIN opOrders :
           /\ opLog[2 * k - 1].service = "payment"
           /\ opLog[2 * k - 1].amount = opOrders[k].amount
           /\ opLog[2 * k].service = "notifier"
           /\ opLog[2 * k].email = opOrders[k].customerEmail
           /\ opLog[2 * k].message = "Order Confirmed"

\* Two orders of different customers were processed, the first one the order
\* of the usage example.
C23_TwoOrdersProcessed ==
    /\ Len(opOrders) = 2
    /\ opOrders[1] = [amount |-> Num(250), customerEmail |-> "john@example.com"]
    /\ opOrders[2].customerEmail = "jane@example.com"
    /\ Len(opLog) = 4

====
